---- MODULE Spec2Model ----
(***************************************************************************)
(* Order acceptance across the gateway, the orders service and the         *)
(* products service of nameko-devex: the gateway reads the whole catalog,  *)
(* validates every line item against that snapshot and asks the orders     *)
(* service to commit; the orders service commits and then dispatches an    *)
(* order_created event; the products service handles each delivery of the  *)
(* event by decrementing stock once per line item.                         *)
(***************************************************************************)
EXTENDS Integers, Sequences, FiniteSets, TLC

\* ------------------------------------------------------------------ bounds
MaxStock == 3
MaxQty == 2
MaxItems == 1
MaxDeliveries == 2
MaxAdminWrites == 1
\* the sequential specification (one CreateOrder call, wider inputs)
SeqMaxStock == 2
SeqMaxQty == 3
SeqMaxItems == 2

ProductIds == {"the_odyssey", "the_enigma"}
Prices == {"41.00", "100000.99"}
\* the two concurrent CreateOrder calls of the check-then-act race
Calls == {1, 2}

Max(a, b) == IF a >= b THEN a ELSE b

Item(Q, P) == [product_id : ProductIds, quantity : Q, price : P]
DetailsUpTo(lo, n, I) == UNION {[1..k -> I] : k \in lo..n}
\* request bodies of the concurrent specification and of the sequential one
SmallDetails == DetailsUpTo(1, MaxItems, Item(1..MaxQty, {"41.00"}))
WideDetails == DetailsUpTo(0, SeqMaxItems, Item(0..SeqMaxQty, Prices))
CatalogsUpTo(n) == UNION {[S -> 0..n] : S \in SUBSET ProductIds}
\* every catalog of the sequential specification, the empty one included
Catalogs == CatalogsUpTo(SeqMaxStock)
\* the_odyssey with any stock, the_enigma absent or with one in stock
RaceCatalogs ==
    {st \in CatalogsUpTo(MaxStock) :
        /\ "the_odyssey" \in DOMAIN st
        /\ "the_enigma" \in DOMAIN st => st["the_enigma"] = 1}

VARIABLES
    storage,        \* products service: product id -> in_stock
    db,             \* orders service: the committed orders, db[i].id = i
    events,         \* order_created payloads dispatched so far, in order
    handled,        \* handled[i]: how often events[i] was handled
    decrements,     \* the decrement_stock calls of the latest handler run
    pc,             \* per CreateOrder call: where it stands
    order_data,     \* per call: the request's order_details
    all_products,   \* per call: what products.list returned
    error,          \* per call: the exception it ended with, "" if none
    failed_item,    \* per call: the line item whose check raised, 0 if none
    response,       \* per call: the id it returned, 0 if none
    list_calls,     \* per call: products.list invocations
    create_calls,   \* per call: orders.create_order invocations
    order_of,       \* per call: id of the order its create_order committed
    init_stock,     \* the catalog at the start
    admin_writes    \* products.update / products.delete calls so far

vars == <<storage, db, events, handled, decrements, pc, order_data, all_products, error,
          failed_item, response, list_calls, create_calls, order_of, init_stock,
          admin_writes>>

call_vars == <<pc, order_data, all_products, error, failed_item, response, list_calls,
               create_calls, order_of>>

\* ------------------------------------------------------- products service
\* dict.get(key, default)
Get(dict, key, default) == IF key \in DOMAIN dict THEN dict[key] ELSE default

\* ProductsService.list: every stored product
products_list(st) == {[id |-> p, in_stock |-> st[p]] : p \in DOMAIN st}

\* decrement_stock without the clamp at zero
decrement_stock_unclamped(st, product_id, amount) ==
    IF product_id \in DOMAIN st
    THEN [st EXCEPT ![product_id] = @ - amount]
    ELSE st

\* decrement_stock, had it refused a quantity above the stock and left the
\* stock as it was
decrement_stock_refuses_excess(st, product_id, amount) ==
    IF product_id \in DOMAIN st /\ amount <= st[product_id]
    THEN [st EXCEPT ![product_id] = @ - amount]
    ELSE st

\* Storage.decrement_stock: stock = max(stock - quantity, 0), never raises
decrement_stock(st, product_id, amount) ==
    IF product_id \in DOMAIN st
    THEN [st EXCEPT ![product_id] = Max(@ - amount, 0)]
    ELSE st

\* decrement_each, had it decremented by one per line item, not by its quantity
RECURSIVE decrement_each_by_one(_, _)
decrement_each_by_one(st, order_details) ==
    IF order_details = <<>> THEN st
    ELSE decrement_each_by_one(
             decrement_stock(st, Head(order_details).product_id, 1),
             Tail(order_details))

\* decrement_calls, had the loop run over the line items from last to first
decrement_calls_reversed(order_details) ==
    [i \in 1..Len(order_details) |->
        [product_id |-> order_details[Len(order_details) + 1 - i].product_id,
         amount |-> order_details[Len(order_details) + 1 - i].quantity]]

\* decrement_calls, had each call asked for one more than the item's quantity
decrement_calls_one_more(order_details) ==
    [i \in 1..Len(order_details) |->
        [product_id |-> order_details[i].product_id,
         amount |-> order_details[i].quantity + 1]]

\* the decrement_stock calls the loop of handle_order_created makes: one per
\* line item, with its product_id and quantity, in the order of the payload
decrement_calls(order_details) ==
    [i \in 1..Len(order_details) |->
        [product_id |-> order_details[i].product_id,
         amount |-> order_details[i].quantity]]

\* the storage after a sequence of decrement_stock calls
RECURSIVE apply_calls(_, _)
apply_calls(st, calls) ==
    IF calls = <<>> THEN st
    ELSE apply_calls(decrement_stock(st, Head(calls).product_id, Head(calls).amount),
                     Tail(calls))

\* the loop of handle_order_created: one decrement_stock per line item, in order
decrement_each(st, order_details) ==
    apply_calls(st, decrement_calls(order_details))

\* ---------------------------------------------------------------- gateway
valid_product_ids(products) == {prod.id : prod \in products}

product_in_stock(products) ==
    [p \in valid_product_ids(products) |->
        (CHOOSE prod \in products : prod.id = p).in_stock]

\* check_item without the membership check: an unknown id then falls to the
\* default of product_in_stock.get(product_id, 0)
check_item_no_membership(item, valid, in_stock) ==
    IF Get(in_stock, item.product_id, 0) = 0 THEN "PRODUCT_NOT_IN_STOCK"
    ELSE IF item.quantity > Get(in_stock, item.product_id, 0) THEN "BAD_REQUEST"
    ELSE ""

\* check_item without the zero-stock check
check_item_no_zero_check(item, valid, in_stock) ==
    IF item.product_id \notin valid THEN "PRODUCT_NOT_FOUND"
    ELSE IF item.quantity > Get(in_stock, item.product_id, 0) THEN "BAD_REQUEST"
    ELSE ""

\* check_item with >= for > in the quantity check
check_item_off_by_one(item, valid, in_stock) ==
    IF item.product_id \notin valid THEN "PRODUCT_NOT_FOUND"
    ELSE IF Get(in_stock, item.product_id, 0) = 0 THEN "PRODUCT_NOT_IN_STOCK"
    ELSE IF item.quantity >= Get(in_stock, item.product_id, 0) THEN "BAD_REQUEST"
    ELSE ""

\* check_item without the check of the quantity against the stock
check_item_no_quantity_check(item, valid, in_stock) ==
    IF item.product_id \notin valid THEN "PRODUCT_NOT_FOUND"
    ELSE IF Get(in_stock, item.product_id, 0) = 0 THEN "PRODUCT_NOT_IN_STOCK"
    ELSE ""

\* the checks on one line item, in the order the code makes them
check_item(item, valid, in_stock) ==
    IF item.product_id \notin valid THEN "PRODUCT_NOT_FOUND"
    ELSE IF Get(in_stock, item.product_id, 0) = 0 THEN "PRODUCT_NOT_IN_STOCK"
    ELSE IF item.quantity > Get(in_stock, item.product_id, 0) THEN "BAD_REQUEST"
    ELSE ""

\* check_from, had it examined every item and reported the last failing one
RECURSIVE check_from_last_failing(_, _, _, _)
check_from_last_failing(i, items, valid, in_stock) ==
    IF i > Len(items) THEN [item |-> 0, error |-> ""]
    ELSE IF check_from_last_failing(i + 1, items, valid, in_stock).error # ""
         THEN check_from_last_failing(i + 1, items, valid, in_stock)
         ELSE IF check_item(items[i], valid, in_stock) # ""
              THEN [item |-> i, error |-> check_item(items[i], valid, in_stock)]
              ELSE [item |-> 0, error |-> ""]

\* check_from, had it taken the quantity of each passing item off the stock
\* that the later items are checked against
RECURSIVE check_from_diminishing(_, _, _, _)
check_from_diminishing(i, items, valid, in_stock) ==
    IF i > Len(items) THEN [item |-> 0, error |-> ""]
    ELSE IF check_item(items[i], valid, in_stock) # ""
         THEN [item |-> i, error |-> check_item(items[i], valid, in_stock)]
         ELSE check_from_diminishing(i + 1, items, valid,
                  [in_stock EXCEPT ![items[i].product_id] = @ - items[i].quantity])

\* the validation loop: the first failing item and its error, or item 0 and ""
RECURSIVE check_from(_, _, _, _)
check_from(i, items, valid, in_stock) ==
    IF i > Len(items) THEN [item |-> 0, error |-> ""]
    ELSE IF check_item(items[i], valid, in_stock) # ""
         THEN [item |-> i, error |-> check_item(items[i], valid, in_stock)]
         ELSE check_from(i + 1, items, valid, in_stock)

validate(products, items) ==
    check_from(1, items, valid_product_ids(products), product_in_stock(products))

\* ---------------------------------------------------------------- gateapi
\* HTTPException(status_code, detail); no exception is status 0
HTTPException(status_code, detail) == [status_code |-> status_code, detail |-> detail]

NoException == HTTPException(0, "")

\* gateapi_check_item with the quantity check before the zero-stock check
gateapi_check_item_quantity_first(item, valid, in_stock) ==
    IF item.product_id \notin valid
    THEN HTTPException(404, "Product with id not found")
    ELSE IF item.quantity > Get(in_stock, item.product_id, 0)
    THEN HTTPException(400, "Order quantity exceeds quantity limit.")
    ELSE IF Get(in_stock, item.product_id, 0) = 0
    THEN HTTPException(400, "Product is not in stock")
    ELSE NoException

\* gateapi _create_order: the checks on one line item
gateapi_check_item(item, valid, in_stock) ==
    IF item.product_id \notin valid
    THEN HTTPException(404, "Product with id not found")
    ELSE IF Get(in_stock, item.product_id, 0) = 0
    THEN HTTPException(400, "Product is not in stock")
    ELSE IF item.quantity > Get(in_stock, item.product_id, 0)
    THEN HTTPException(400, "Order quantity exceeds quantity limit.")
    ELSE NoException

\* gateapi _create_order: the validation loop
RECURSIVE gateapi_check_from(_, _, _, _)
gateapi_check_from(i, items, valid, in_stock) ==
    IF i > Len(items) THEN [item |-> 0, error |-> NoException]
    ELSE IF gateapi_check_item(items[i], valid, in_stock) # NoException
         THEN [item |-> i, error |-> gateapi_check_item(items[i], valid, in_stock)]
         ELSE gateapi_check_from(i + 1, items, valid, in_stock)

\* gateapi _create_order on the product list it read: the item it raised at
\* and the exception, and the arguments of its orders.create_order calls (the
\* request's order_details as they are, once, after the loop)
gateapi_create_order(products, items) ==
    [item |-> gateapi_check_from(1, items, valid_product_ids(products),
                                 product_in_stock(products)).item,
     error |-> gateapi_check_from(1, items, valid_product_ids(products),
                                  product_in_stock(products)).error,
     create_order_args |->
         IF gateapi_check_from(1, items, valid_product_ids(products),
                               product_in_stock(products)).error = NoException
         THEN <<items>>
         ELSE <<>>]

\* CreateOrderSchema().dump: the request's details as sent to the orders service
CreateOrderSchema_dump(items) ==
    [i \in 1..Len(items) |->
        [product_id |-> items[i].product_id,
         quantity |-> items[i].quantity,
         price |-> items[i].price]]

\* ---------------------------------------------------------- orders service
OrderDetail(product_id, price, quantity) ==
    [product_id |-> product_id, price |-> price, quantity |-> quantity]

\* Order, had it built its details in reverse
Order_reversed(order_details) ==
    [order_details |->
        [i \in 1..Len(order_details) |->
            OrderDetail(order_details[Len(order_details) + 1 - i].product_id,
                        order_details[Len(order_details) + 1 - i].price,
                        order_details[Len(order_details) + 1 - i].quantity)]]

\* Order(order_details=[OrderDetail(...) for order_detail in order_details])
Order(order_details) ==
    [order_details |->
        [i \in 1..Len(order_details) |->
            OrderDetail(order_details[i].product_id, order_details[i].price,
                        order_details[i].quantity)]]

RECURSIVE CountDetails(_)
CountDetails(orders) ==
    IF orders = <<>> THEN 0
    ELSE Len(Head(orders).order_details) + CountDetails(Tail(orders))

\* db.add(order); db.commit(): the order and its details get their ids and
\* become visible together
db_commit(orders, order) ==
    Append(orders,
        [id |-> Len(orders) + 1,
         order_details |->
            [i \in 1..Len(order.order_details) |->
                [id |-> CountDetails(orders) + i,
                 product_id |-> order.order_details[i].product_id,
                 price |-> order.order_details[i].price,
                 quantity |-> order.order_details[i].quantity]]])

\* OrderSchema().dump(order)
OrderSchema_dump(order) ==
    [id |-> order.id,
     order_details |->
        [i \in 1..Len(order.order_details) |->
            [id |-> order.order_details[i].id,
             product_id |-> order.order_details[i].product_id,
             price |-> order.order_details[i].price,
             quantity |-> order.order_details[i].quantity]]]

NotFound == [error |-> "ORDER_NOT_FOUND"]

\* OrdersService.get_order
get_order(orders, order_id) ==
    IF order_id \in 1..Len(orders)
    THEN OrderSchema_dump(orders[order_id])
    ELSE NotFound

\* OrdersService.list_orders
list_orders(orders) == [i \in 1..Len(orders) |-> OrderSchema_dump(orders[i])]

\* '{}/{}.jpg'.format(image_root, product_id)
image_url(product_id) == [root |-> "PRODUCT_IMAGE_ROOT", name |-> product_id]

\* GatewayService._get_order: the order of the orders service, each line item
\* with its image url; the products service is not asked
gateway_get_order(orders, order_id) ==
    IF get_order(orders, order_id) = NotFound THEN NotFound
    ELSE [id |-> get_order(orders, order_id).id,
          order_details |->
              [i \in 1..Len(get_order(orders, order_id).order_details) |->
                  [id |-> get_order(orders, order_id).order_details[i].id,
                   product_id |-> get_order(orders, order_id).order_details[i].product_id,
                   price |-> get_order(orders, order_id).order_details[i].price,
                   quantity |-> get_order(orders, order_id).order_details[i].quantity,
                   image |-> image_url(
                       get_order(orders, order_id).order_details[i].product_id)]]]

\* gateapi _get_order: the same, and each line item with its product looked up
\* in a map of products.list(); product_map[product_id] raises KeyError for a
\* product the catalog no longer has, which get_order does not catch
gateapi_get_order(orders, st, order_id) ==
    IF get_order(orders, order_id) = NotFound THEN NotFound
    ELSE IF \E i \in 1..Len(get_order(orders, order_id).order_details) :
                get_order(orders, order_id).order_details[i].product_id
                    \notin valid_product_ids(products_list(st))
         THEN [error |-> "KEY_ERROR"]
         ELSE [id |-> get_order(orders, order_id).id,
               order_details |->
                   [i \in 1..Len(get_order(orders, order_id).order_details) |->
                       [id |-> get_order(orders, order_id).order_details[i].id,
                        product_id |-> get_order(orders, order_id).order_details[i].product_id,
                        price |-> get_order(orders, order_id).order_details[i].price,
                        quantity |-> get_order(orders, order_id).order_details[i].quantity,
                        product |->
                            CHOOSE prod \in products_list(st) :
                                prod.id = get_order(orders, order_id).order_details[i].product_id,
                        image |-> image_url(
                            get_order(orders, order_id).order_details[i].product_id)]]]

\* ---------------------------------------------------------------- actions
\* gateway_validate, had it called orders.create_order before the validation
\* loop instead of after it
gateway_validate_create_first(c) ==
    /\ pc[c] = "start"
    /\ list_calls' = [list_calls EXCEPT ![c] = @ + 1]
    /\ all_products' = [all_products EXCEPT ![c] = products_list(storage)]
    /\ create_calls' = [create_calls EXCEPT ![c] = @ + 1]
    /\ db' = db_commit(db, Order(CreateOrderSchema_dump(order_data[c])))
    /\ order_of' = [order_of EXCEPT ![c] = Len(db) + 1]
    /\ LET v == validate(products_list(storage), order_data[c]) IN
        /\ error' = [error EXCEPT ![c] = v.error]
        /\ failed_item' = [failed_item EXCEPT ![c] = v.item]
        /\ pc' = [pc EXCEPT ![c] = IF v.error = "" THEN "dispatch" ELSE "failed"]
    /\ UNCHANGED <<storage, events, handled, decrements, order_data, response, init_stock,
                   admin_writes>>

\* gateway_validate, had it taken the quantities of an accepted order off the
\* stock itself
gateway_validate_reserves(c) ==
    /\ pc[c] = "start"
    /\ list_calls' = [list_calls EXCEPT ![c] = @ + 1]
    /\ all_products' = [all_products EXCEPT ![c] = products_list(storage)]
    /\ LET v == validate(products_list(storage), order_data[c]) IN
        /\ error' = [error EXCEPT ![c] = v.error]
        /\ failed_item' = [failed_item EXCEPT ![c] = v.item]
        /\ pc' = [pc EXCEPT ![c] = IF v.error = "" THEN "create" ELSE "failed"]
        /\ storage' = IF v.error = "" THEN decrement_each(storage, order_data[c])
                                     ELSE storage
    /\ UNCHANGED <<db, events, handled, decrements, order_data, response,
                   create_calls, order_of, init_stock, admin_writes>>

\* gateway_validate, had it held a lock on the catalog from its read until the
\* orders service returned
gateway_validate_locked(c) ==
    /\ pc[c] = "start"
    /\ \A d \in Calls \ {c} : pc[d] \notin {"create", "dispatch"}
    /\ list_calls' = [list_calls EXCEPT ![c] = @ + 1]
    /\ all_products' = [all_products EXCEPT ![c] = products_list(storage)]
    /\ LET v == validate(products_list(storage), order_data[c]) IN
        /\ error' = [error EXCEPT ![c] = v.error]
        /\ failed_item' = [failed_item EXCEPT ![c] = v.item]
        /\ pc' = [pc EXCEPT ![c] = IF v.error = "" THEN "create" ELSE "failed"]
    /\ UNCHANGED <<storage, db, events, handled, decrements, order_data, response,
                   create_calls, order_of, init_stock, admin_writes>>

\* GatewayService._create_order up to its call of orders.create_order: one
\* products.list, then the validation loop over the snapshot
gateway_validate(c) ==
    /\ pc[c] = "start"
    /\ list_calls' = [list_calls EXCEPT ![c] = @ + 1]
    /\ all_products' = [all_products EXCEPT ![c] = products_list(storage)]
    /\ LET v == validate(products_list(storage), order_data[c]) IN
        /\ error' = [error EXCEPT ![c] = v.error]
        /\ failed_item' = [failed_item EXCEPT ![c] = v.item]
        /\ pc' = [pc EXCEPT ![c] = IF v.error = "" THEN "create" ELSE "failed"]
    /\ UNCHANGED <<storage, db, events, handled, decrements, order_data, response,
                   create_calls, order_of, init_stock, admin_writes>>

\* products.list fails or times out: the exception leaves _create_order
gateway_list_fails(c) ==
    /\ pc[c] = "start"
    /\ list_calls' = [list_calls EXCEPT ![c] = @ + 1]
    /\ error' = [error EXCEPT ![c] = "TRANSPORT_ERROR"]
    /\ pc' = [pc EXCEPT ![c] = "failed"]
    /\ UNCHANGED <<storage, db, events, handled, decrements, order_data, all_products,
                   failed_item, response, create_calls, order_of, init_stock,
                   admin_writes>>

\* create_order_commit, had it dispatched the event before db.commit()
create_order_commit_dispatch_first(c) ==
    /\ pc[c] = "create"
    /\ create_calls' = [create_calls EXCEPT ![c] = @ + 1]
    /\ db' = db_commit(db, Order(CreateOrderSchema_dump(order_data[c])))
    /\ events' = Append(events, [order |-> OrderSchema_dump(db'[Len(db')])])
    /\ handled' = Append(handled, 0)
    /\ order_of' = [order_of EXCEPT ![c] = Len(db) + 1]
    /\ response' = [response EXCEPT ![c] = Len(db) + 1]
    /\ pc' = [pc EXCEPT ![c] = "done"]
    /\ UNCHANGED <<storage, decrements, order_data, all_products, error,
                   failed_item, list_calls, init_stock, admin_writes>>

\* create_order_commit, had the gateway read the catalog again and checked the
\* line items against the second read before calling orders.create_order
create_order_commit_revalidates(c) ==
    /\ pc[c] = "create"
    /\ list_calls' = [list_calls EXCEPT ![c] = @ + 1]
    /\ validate(products_list(storage), order_data[c]).error = ""
    /\ create_calls' = [create_calls EXCEPT ![c] = @ + 1]
    /\ db' = db_commit(db, Order(CreateOrderSchema_dump(order_data[c])))
    /\ order_of' = [order_of EXCEPT ![c] = Len(db) + 1]
    /\ pc' = [pc EXCEPT ![c] = "dispatch"]
    /\ UNCHANGED <<storage, events, handled, decrements, order_data, all_products,
                   error, failed_item, response, init_stock, admin_writes>>

\* OrdersService.create_order up to db.commit()
create_order_commit(c) ==
    /\ pc[c] = "create"
    /\ create_calls' = [create_calls EXCEPT ![c] = @ + 1]
    /\ db' = db_commit(db, Order(CreateOrderSchema_dump(order_data[c])))
    /\ order_of' = [order_of EXCEPT ![c] = Len(db) + 1]
    /\ pc' = [pc EXCEPT ![c] = "dispatch"]
    /\ UNCHANGED <<storage, events, handled, decrements, order_data, all_products, error,
                   failed_item, response, list_calls, init_stock, admin_writes>>

\* create_order_rpc_fails, had the gateway called orders.create_order again
\* after the failure
create_order_rpc_fails_retried(c) ==
    /\ pc[c] = "create"
    /\ create_calls[c] < 2
    /\ create_calls' = [create_calls EXCEPT ![c] = @ + 1]
    /\ UNCHANGED <<storage, db, events, handled, decrements, pc, order_data,
                   all_products, error, failed_item, response, list_calls, order_of,
                   init_stock, admin_writes>>

\* orders_rpc.create_order fails or times out before anything is committed:
\* the exception leaves _create_order, which has no other call of it
create_order_rpc_fails(c) ==
    /\ pc[c] = "create"
    /\ create_calls' = [create_calls EXCEPT ![c] = @ + 1]
    /\ error' = [error EXCEPT ![c] = "COMMIT_ERROR"]
    /\ pc' = [pc EXCEPT ![c] = "failed"]
    /\ UNCHANGED <<storage, db, events, handled, decrements, order_data,
                   all_products, failed_item, response, list_calls, order_of,
                   init_stock, admin_writes>>

\* OrdersService.create_order from the dump to its return, and the gateway's
\* return of result['id']
create_order_dispatch(c) ==
    /\ pc[c] = "dispatch"
    /\ events' = Append(events, [order |-> OrderSchema_dump(db[order_of[c]])])
    /\ handled' = Append(handled, 0)
    /\ response' = [response EXCEPT ![c] = OrderSchema_dump(db[order_of[c]]).id]
    /\ pc' = [pc EXCEPT ![c] = "done"]
    /\ UNCHANGED <<storage, db, decrements, order_data, all_products, error,
                   failed_item, list_calls, create_calls, order_of, init_stock,
                   admin_writes>>

\* create_order_dispatch_fails, had the failed dispatch undone the commit
create_order_dispatch_fails_rollback(c) ==
    /\ pc[c] = "dispatch"
    /\ db' = SelectSeq(db, LAMBDA o : o.id # order_of[c])
    /\ error' = [error EXCEPT ![c] = "PUBLISH_ERROR"]
    /\ pc' = [pc EXCEPT ![c] = "failed"]
    /\ UNCHANGED <<storage, events, handled, decrements, order_data, all_products,
                   failed_item, response, list_calls, create_calls, order_of,
                   init_stock, admin_writes>>

\* the event dispatcher raises: create_order ends with the exception
create_order_dispatch_fails(c) ==
    /\ pc[c] = "dispatch"
    /\ error' = [error EXCEPT ![c] = "PUBLISH_ERROR"]
    /\ pc' = [pc EXCEPT ![c] = "failed"]
    /\ UNCHANGED <<storage, db, events, handled, decrements, order_data, all_products,
                   failed_item, response, list_calls, create_calls, order_of,
                   init_stock, admin_writes>>

\* handle_order_created, had it handled the events of the first order only
handle_order_created_first_only(i) ==
    /\ i = 1
    /\ i \in 1..Len(events)
    /\ handled[i] < MaxDeliveries
    /\ storage' = decrement_each(storage, events[i].order.order_details)
    /\ decrements' = decrement_calls(events[i].order.order_details)
    /\ handled' = [handled EXCEPT ![i] = @ + 1]
    /\ UNCHANGED <<db, events, call_vars, init_stock, admin_writes>>

\* ProductsService.handle_order_created, for one delivery of events[i]
handle_order_created(i) ==
    /\ i \in 1..Len(events)
    /\ handled[i] < MaxDeliveries
    /\ storage' = decrement_each(storage, events[i].order.order_details)
    /\ decrements' = decrement_calls(events[i].order.order_details)
    /\ handled' = [handled EXCEPT ![i] = @ + 1]
    /\ UNCHANGED <<db, events, call_vars, init_stock, admin_writes>>

\* ProductsService.update, of the stock of an existing product
products_update(p, s) ==
    /\ admin_writes < MaxAdminWrites
    /\ p \in DOMAIN storage
    /\ storage' = [storage EXCEPT ![p] = s]
    /\ admin_writes' = admin_writes + 1
    /\ UNCHANGED <<db, events, handled, decrements, call_vars, init_stock>>

\* ProductsService.delete
products_delete(p) ==
    /\ admin_writes < MaxAdminWrites
    /\ p \in DOMAIN storage
    /\ storage' = [q \in DOMAIN storage \ {p} |-> storage[q]]
    /\ admin_writes' = admin_writes + 1
    /\ UNCHANGED <<db, events, handled, decrements, call_vars, init_stock>>

\* ---------------------------------------------------------- specifications
InitOf(catalogs, active, requests) ==
    /\ storage \in catalogs
    /\ init_stock = storage
    /\ db = <<>>
    /\ events = <<>>
    /\ handled = <<>>
    /\ decrements = <<>>
    /\ pc = [c \in Calls |-> IF c \in active THEN "start" ELSE "idle"]
    /\ order_data \in requests
    /\ all_products = [c \in Calls |-> {}]
    /\ error = [c \in Calls |-> ""]
    /\ failed_item = [c \in Calls |-> 0]
    /\ response = [c \in Calls |-> 0]
    /\ list_calls = [c \in Calls |-> 0]
    /\ create_calls = [c \in Calls |-> 0]
    /\ order_of = [c \in Calls |-> 0]
    /\ admin_writes = 0

\* every active call with a request body of the same set
InitWith(catalogs, active, details) ==
    InitOf(catalogs, active,
           {[c \in Calls |-> IF c \in active THEN d[c] ELSE <<>>] :
                d \in [active -> details]})

\* the order protocol: the steps of every CreateOrder call and the deliveries
\* of the events, interleaved in every way
Protocol ==
    \/ \E c \in Calls : gateway_validate(c)
    \/ \E c \in Calls : gateway_list_fails(c)
    \/ \E c \in Calls : create_order_commit(c)
    \/ \E c \in Calls : create_order_rpc_fails(c)
    \/ \E c \in Calls : create_order_dispatch(c)
    \/ \E c \in Calls : create_order_dispatch_fails(c)
    \/ \E i \in 1..Cardinality(Calls) : handle_order_created(i)

\* concurrent CreateOrder calls against a catalog holding the_odyssey and,
\* possibly, the_enigma
Init == InitWith(RaceCatalogs, Calls, SmallDetails)

Next == Protocol

Spec == Init /\ [][Next]_vars

\* one CreateOrder call, over every catalog and every request body up to
\* SeqMaxItems line items
InitSeq == InitWith(Catalogs, {1}, WideDetails)

SpecSeq == InitSeq /\ [][Next]_vars

\* call c may read the catalog in a run that handles the orders one after
\* another: every earlier call has ended and every published event was handled
\* exactly once
SerialTurn(c) ==
    /\ \A d \in Calls : d < c => pc[d] \in {"done", "failed"}
    /\ \A i \in 1..Len(events) : handled[i] = 1

\* the protocol, the calls one after another and every event handled once
\* before the next call reads the catalog
NextSerial ==
    \/ \E c \in Calls : SerialTurn(c) /\ gateway_validate(c)
    \/ \E c \in Calls : SerialTurn(c) /\ gateway_list_fails(c)
    \/ \E c \in Calls : create_order_commit(c)
    \/ \E c \in Calls : create_order_rpc_fails(c)
    \/ \E c \in Calls : create_order_dispatch(c)
    \/ \E c \in Calls : create_order_dispatch_fails(c)
    \/ \E i \in 1..Len(events) : handled[i] = 0 /\ handle_order_created(i)

\* a first request of up to SeqMaxItems line items and a second of one
SerialRequests ==
    {[c \in Calls |-> IF c = 1 THEN a ELSE <<b>>] :
        a \in DetailsUpTo(1, SeqMaxItems, Item(1..MaxQty, {"41.00"})),
        b \in Item(1..MaxQty, {"41.00"})}

InitSerial == InitOf(RaceCatalogs, Calls, SerialRequests)

SpecSerial == InitSerial /\ [][NextSerial]_vars

\* the first delivery of events[i] to the handler
first_delivery(i) ==
    /\ i \in 1..Len(events)
    /\ handled[i] = 0
    /\ handle_order_created(i)

\* the protocol with a channel that delivers at least once: a published event
\* that was never handled is eventually delivered to the handler
SpecLive ==
    /\ Init
    /\ [][Next]_vars
    /\ \A i \in 1..Cardinality(Calls) : WF_vars(first_delivery(i))

\* the protocol together with the administrative writes of the catalog
NextAdmin ==
    \/ Protocol
    \/ \E p \in ProductIds, s \in 0..MaxStock : products_update(p, s)
    \/ \E p \in ProductIds : products_delete(p)

SpecAdmin == Init /\ [][NextAdmin]_vars

\* ------------------------------------------------------------------ claims
\* the total quantity a sequence of line items asks of product p
RECURSIVE QtyOf(_, _)
QtyOf(p, details) ==
    IF details = <<>> THEN 0
    ELSE (IF Head(details).product_id = p THEN Head(details).quantity ELSE 0)
         + QtyOf(p, Tail(details))

\* the quantity of p that the deliveries handled so far have asked to decrement
RECURSIVE HandledQty(_, _)
HandledQty(p, i) ==
    IF i = 0 THEN 0
    ELSE handled[i] * QtyOf(p, events[i].order.order_details)
         + HandledQty(p, i - 1)

\* C1: every product's stock is >= 0 in every reachable state, whatever
\* order_created events were handled, how often and in which order.
C1_StockNonNegative == \A p \in DOMAIN storage : storage[p] >= 0

\* C1 witness: the second order's event was handled twice before the first
\* order's, asking for more than the product had, and the stock stands at 0.
C1_Witness ==
    /\ Len(events) = 2
    /\ handled[1] = 0
    /\ handled[2] = 2
    /\ \E p \in DOMAIN storage :
        /\ init_stock[p] > 0
        /\ HandledQty(p, 2) > init_stock[p]
        /\ storage[p] = 0

\* C2: handling an order_created event that was already handled leaves every
\* product's stock as it was (a notification applied twice equals applied once).
C2_RedeliveryIdempotent ==
    [][\A i \in 1..Len(events) :
          (handled[i] >= 1 /\ handled'[i] = handled[i] + 1)
              => storage' = storage]_vars

\* the errors with which _create_order ends before it calls orders.create_order
PreCommitErrors ==
    {"PRODUCT_NOT_FOUND", "PRODUCT_NOT_IN_STOCK", "BAD_REQUEST", "TRANSPORT_ERROR"}

Aborted(c) == pc[c] = "failed" /\ error[c] \in PreCommitErrors

\* C3: a CreateOrder call that aborts before the commit (a line item fails
\* validation, or the catalog read fails) has made no call of
\* orders.create_order, has no order in the ledger and no event published, and
\* the step that aborts it changes neither stock, ledger nor events.
C3_AbortNoSideEffects ==
    /\ [](\A c \in Calls : Aborted(c) =>
            /\ create_calls[c] = 0
            /\ order_of[c] = 0
            /\ response[c] = 0
            /\ Len(db) = Cardinality({d \in Calls \ {c} : order_of[d] # 0})
            /\ \A i \in 1..Len(events) :
                   \E d \in Calls \ {c} : events[i].order.id = order_of[d])
    /\ [][\A c \in Calls : (~Aborted(c) /\ Aborted(c)') =>
            UNCHANGED <<storage, db, events, handled>>]_vars

\* C3 witness: a call aborted at its second line item, after the first passed.
C3_Witness ==
    \E c \in Calls :
        /\ Aborted(c)
        /\ error[c] # "TRANSPORT_ERROR"
        /\ validate(all_products[c], order_data[c]).item = 2
        /\ db = <<>> /\ events = <<>> /\ storage = init_stock

\* C4: nothing serialises validation against commit: while one call stands
\* between its catalog read and the end of its commit, another call's read and
\* validation can run, every call that passed validation passed it against
\* its own snapshot alone, and its commit can always go ahead.
C4_NoSerialisation ==
    /\ \A c, d \in Calls :
           (c # d /\ pc[c] \in {"create", "dispatch"} /\ pc[d] = "start")
               => ENABLED gateway_validate(d)
    /\ \A c \in Calls :
           pc[c] = "create" =>
               /\ validate(all_products[c], order_data[c]).error = ""
               /\ ENABLED create_order_commit(c)

\* C4 witness: both calls read the same stock, before any decrement, both
\* passed validation and both are committed, for quantities of one product
\* that together exceed that stock.
C4_Witness ==
    /\ all_products[1] = products_list(init_stock)
    /\ all_products[2] = products_list(init_stock)
    /\ order_of[1] # 0 /\ order_of[2] # 0
    /\ Len(db) = 2
    /\ \A i \in 1..Len(handled) : handled[i] = 0
    /\ \E p \in DOMAIN init_stock :
           QtyOf(p, order_data[1]) + QtyOf(p, order_data[2]) > init_stock[p]

\* the scenario of C5: the_odyssey alone with 3 in stock, and two calls that
\* each ask for 2 of it
C5_Scenario ==
    /\ DOMAIN init_stock = {"the_odyssey"}
    /\ init_stock["the_odyssey"] = 3
    /\ \A c \in Calls :
           /\ Len(order_data[c]) = 1
           /\ order_data[c][1].product_id = "the_odyssey"
           /\ order_data[c][1].quantity = 2

C5_BothApplied ==
    /\ order_of[1] # 0 /\ order_of[2] # 0
    /\ Len(events) = 2
    /\ handled[1] >= 1 /\ handled[2] >= 1

\* C5: in that scenario the stock of the_odyssey is never negative, and once
\* both calls are committed and both decrements applied it is 0.
C5_RaceClampsAtZero ==
    C5_Scenario =>
        /\ storage["the_odyssey"] >= 0
        /\ C5_BothApplied => storage["the_odyssey"] = 0

\* C5 witness: both calls read 3, both committed, each decrement applied once.
C5_Witness ==
    /\ C5_Scenario
    /\ C5_BothApplied
    /\ all_products[1] = products_list(init_stock)
    /\ all_products[2] = products_list(init_stock)
    /\ handled = <<1, 1>>
    /\ storage["the_odyssey"] = 0

\* the snapshot a call validated against, read off what products.list returned
InSnapshot(c, p) == \E prod \in all_products[c] : prod.id = p

SnapStock(c, p) == (CHOOSE prod \in all_products[c] : prod.id = p).in_stock

\* the call made its catalog read and ran its validation loop
Validated(c) == pc[c] \notin {"idle", "start"} /\ error[c] # "TRANSPORT_ERROR"

\* line item j of call c passes all three checks against the call's snapshot
ItemPasses(c, j) ==
    /\ InSnapshot(c, order_data[c][j].product_id)
    /\ SnapStock(c, order_data[c][j].product_id) > 0
    /\ order_data[c][j].quantity <= SnapStock(c, order_data[c][j].product_id)

\* the validation loop examines line item i: every earlier item passed
Examined(c, i) == \A j \in 1..(i - 1) : ItemPasses(c, j)

Rejected(c) == pc[c] = "failed" /\ create_calls[c] = 0 /\ order_of[c] = 0

\* C6: a line item whose product_id is absent from the product list read from
\* the catalog makes CreateOrder fail, and with PRODUCT_NOT_FOUND at that item
\* when the loop examines it; with an empty catalog that is the first item.
C6_ProductNotFound ==
    \A c \in Calls : Validated(c) =>
        \A i \in 1..Len(order_data[c]) :
            ~InSnapshot(c, order_data[c][i].product_id) =>
                /\ Rejected(c)
                /\ Examined(c, i) =>
                       (error[c] = "PRODUCT_NOT_FOUND" /\ failed_item[c] = i)
                /\ all_products[c] = {} =>
                       (error[c] = "PRODUCT_NOT_FOUND" /\ failed_item[c] = 1)

\* C6 witness: the catalog is empty and a request of two items was rejected
\* with PRODUCT_NOT_FOUND.
C6_Witness ==
    /\ Validated(1)
    /\ init_stock = <<>>
    /\ all_products[1] = {}
    /\ Len(order_data[1]) = 2
    /\ error[1] = "PRODUCT_NOT_FOUND"
    /\ pc[1] = "failed"

\* C7: a line item whose product exists with snapshot stock exactly 0 makes
\* CreateOrder fail, and with PRODUCT_NOT_IN_STOCK at that item when the loop
\* examines it, for every requested quantity, 0 included.
C7_ZeroStockBlocks ==
    \A c \in Calls : Validated(c) =>
        \A i \in 1..Len(order_data[c]) :
            (/\ InSnapshot(c, order_data[c][i].product_id)
             /\ SnapStock(c, order_data[c][i].product_id) = 0) =>
                /\ Rejected(c)
                /\ Examined(c, i) =>
                       (error[c] = "PRODUCT_NOT_IN_STOCK" /\ failed_item[c] = i)

\* C7 witness: quantity 0 of a product with stock 0, examined after a first
\* item that passed, rejected with PRODUCT_NOT_IN_STOCK.
C7_Witness ==
    /\ Validated(1)
    /\ Len(order_data[1]) = 2
    /\ ItemPasses(1, 1)
    /\ order_data[1][2].quantity = 0
    /\ InSnapshot(1, order_data[1][2].product_id)
    /\ SnapStock(1, order_data[1][2].product_id) = 0
    /\ error[1] = "PRODUCT_NOT_IN_STOCK"
    /\ failed_item[1] = 2

\* the call went on to orders.create_order
Accepted(c) == pc[c] \in {"create", "dispatch", "done"} \/ create_calls[c] > 0

\* C8: for an examined line item whose product has snapshot stock s > 0,
\* quantity s passes (the item is not the one rejected, and the order is
\* accepted when every other item passes too), and any quantity > s is
\* rejected with BAD_REQUEST at that item.
C8_QuantityBoundary ==
    \A c \in Calls : Validated(c) =>
        \A i \in 1..Len(order_data[c]) :
            (/\ InSnapshot(c, order_data[c][i].product_id)
             /\ SnapStock(c, order_data[c][i].product_id) > 0
             /\ Examined(c, i)) =>
                /\ order_data[c][i].quantity
                        = SnapStock(c, order_data[c][i].product_id) =>
                       /\ failed_item[c] # i
                       /\ (\A j \in 1..Len(order_data[c]) : ItemPasses(c, j))
                              => (Accepted(c) /\ error[c] \notin PreCommitErrors)
                /\ order_data[c][i].quantity
                        > SnapStock(c, order_data[c][i].product_id) =>
                       /\ Rejected(c)
                       /\ error[c] = "BAD_REQUEST"
                       /\ failed_item[c] = i

\* C8 witness: the first item asks exactly the stock and passes, the second
\* asks one more than the stock of its product and is rejected.
C8_Witness ==
    /\ Validated(1)
    /\ Len(order_data[1]) = 2
    /\ InSnapshot(1, order_data[1][1].product_id)
    /\ SnapStock(1, order_data[1][1].product_id) > 0
    /\ order_data[1][1].quantity = SnapStock(1, order_data[1][1].product_id)
    /\ InSnapshot(1, order_data[1][2].product_id)
    /\ order_data[1][2].quantity
           = SnapStock(1, order_data[1][2].product_id) + 1
    /\ order_data[1][2].quantity > 1
    /\ error[1] = "BAD_REQUEST"
    /\ failed_item[1] = 2

\* C9: a CreateOrder that returns, returns the id the orders service assigned
\* at commit, and get_order of the id of a committed order gives exactly the
\* request's line items, in the submitted order, each with its product_id,
\* quantity and price as submitted.
C9_RoundTrip ==
    \A c \in Calls :
        /\ pc[c] = "done" => (response[c] = order_of[c] /\ order_of[c] # 0)
        /\ order_of[c] # 0 =>
            LET order == get_order(db, order_of[c]) IN
                /\ order # NotFound
                /\ order.id = order_of[c]
                /\ Len(order.order_details) = Len(order_data[c])
                /\ \A i \in 1..Len(order_data[c]) :
                       /\ order.order_details[i].product_id
                              = order_data[c][i].product_id
                       /\ order.order_details[i].quantity
                              = order_data[c][i].quantity
                       /\ order.order_details[i].price = order_data[c][i].price

\* C9 witness: a returned order of two line items that differ in product,
\* quantity and price.
C9_Witness ==
    /\ pc[1] = "done"
    /\ response[1] = 1
    /\ Len(order_data[1]) = 2
    /\ order_data[1][1].product_id # order_data[1][2].product_id
    /\ order_data[1][1].quantity # order_data[1][2].quantity
    /\ order_data[1][1].price # order_data[1][2].price
    /\ Len(get_order(db, response[1]).order_details) = 2

\* the events published for the order with this id
EventsOf(id) == {i \in 1..Len(events) : events[i].order.id = id}

\* C10: every published event is the dump of an order in the ledger (its id
\* and its details), no order has two events, a returned CreateOrder has
\* exactly one, and a step that publishes an event finds its order already
\* committed.
C10_PublishAfterCommit ==
    /\ [](/\ \A i \in 1..Len(events) :
                /\ events[i].order.id \in 1..Len(db)
                /\ events[i].order = get_order(db, events[i].order.id)
          /\ \A id \in 1..Len(db) : Cardinality(EventsOf(id)) <= 1
          /\ \A c \in Calls :
                pc[c] = "done" => Cardinality(EventsOf(order_of[c])) = 1)
    /\ [][\A i \in 1..Len(events') :
              i > Len(events) => events'[i].order.id \in 1..Len(db)]_vars

\* C10 witness: both calls returned, each order has its one event.
C10_Witness ==
    /\ pc[1] = "done" /\ pc[2] = "done"
    /\ Len(db) = 2 /\ Len(events) = 2
    /\ EventsOf(order_of[1]) # EventsOf(order_of[2])
    /\ Cardinality(EventsOf(order_of[1])) = 1
    /\ Cardinality(EventsOf(order_of[2])) = 1

\* the order of this id is retrievable by get_order and by list_orders, with
\* the line items of this request
Retrievable(id, details) ==
    /\ get_order(db, id) # NotFound
    /\ get_order(db, id).id = id
    /\ Len(get_order(db, id).order_details) = Len(details)
    /\ \A i \in 1..Len(details) :
           /\ get_order(db, id).order_details[i].product_id = details[i].product_id
           /\ get_order(db, id).order_details[i].quantity = details[i].quantity
           /\ get_order(db, id).order_details[i].price = details[i].price
    /\ \E k \in 1..Len(list_orders(db)) : list_orders(db)[k] = get_order(db, id)

PublishFailed(c) == pc[c] = "failed" /\ error[c] = "PUBLISH_ERROR"

\* C11: when the dispatch of order_created fails after db.commit(), the
\* committed order stays in the ledger with all its details, retrievable by
\* get_order and list_orders; and no step removes or alters a committed order.
C11_PublishFailureKeepsOrder ==
    /\ [](\A c \in Calls :
            PublishFailed(c) =>
                (order_of[c] # 0 /\ Retrievable(order_of[c], order_data[c])))
    /\ [][\A id \in 1..Len(db) : Len(db') >= id /\ db'[id] = db[id]]_vars

\* C11 witness: the dispatch of call 1 failed, its order is retrievable and has
\* no event, while call 2 committed a second order after it.
C11_Witness ==
    /\ PublishFailed(1)
    /\ Retrievable(order_of[1], order_data[1])
    /\ EventsOf(order_of[1]) = {}
    /\ order_of[2] > order_of[1]
    /\ pc[2] = "done"

\* C12: an order is visible via get_order / list_orders only if the
\* create_order call that produced it did not end in an error, the order of a
\* returned call is visible, and every visible order has all its details.
C12_VisibleIffReturned ==
    \A c \in Calls :
        /\ pc[c] = "done" => Retrievable(order_of[c], order_data[c])
        /\ pc[c] = "failed" => order_of[c] = 0
        /\ order_of[c] # 0 => Retrievable(order_of[c], order_data[c])

\* C13: a handler run on a pending delivery is never refused, and it takes the
\* stock of every product p from s to max(s - q, 0), q being the quantity the
\* event's line items ask of p, also when q > s; no product appears or vanishes.
C13_DecrementClamps ==
    /\ [](\A i \in 1..Len(events) :
            handled[i] < MaxDeliveries => ENABLED handle_order_created(i))
    /\ [][\A i \in 1..Len(events) :
            handled'[i] = handled[i] + 1 =>
                /\ DOMAIN storage' = DOMAIN storage
                /\ \A p \in DOMAIN storage :
                       storage'[p] =
                           Max(storage[p] - QtyOf(p, events[i].order.order_details), 0)]_vars

\* C13 witness: two orders of 2 of a product that had 3; the second decrement
\* asked for 2 of the remaining 1 and left 0.
C13_Witness ==
    /\ handled = <<1, 1>>
    /\ \E p \in DOMAIN storage :
           /\ init_stock[p] = 3
           /\ decrements = <<[product_id |-> p, amount |-> 2]>>
           /\ QtyOf(p, events[1].order.order_details) = 2
           /\ QtyOf(p, events[2].order.order_details) = 2
           /\ storage[p] = 0

\* C14: a CreateOrder call makes exactly one products.list call, its verdict
\* (the failing item and its error, or none) is the one the snapshot gives, and
\* a call that passed goes on to orders.create_order whatever the catalog has
\* become since.
C14_OneCatalogRead ==
    \A c \in Calls :
        /\ list_calls[c] = (IF pc[c] \in {"idle", "start"} THEN 0 ELSE 1)
        /\ Validated(c) =>
               /\ validate(all_products[c], order_data[c]).item = failed_item[c]
               /\ failed_item[c] # 0 =>
                      validate(all_products[c], order_data[c]).error = error[c]
               /\ failed_item[c] = 0 => Accepted(c)
        /\ pc[c] = "create" => ENABLED create_order_commit(c)

\* C14 witness: call 2 passed against its snapshot with one read, the stock
\* has since been decremented for call 1's order, and the catalog as it now
\* stands would reject call 2.
C14_Witness ==
    /\ pc[2] = "create"
    /\ list_calls[2] = 1
    /\ all_products[2] = products_list(init_stock)
    /\ storage # init_stock
    /\ handled = <<1>>
    /\ validate(products_list(storage), order_data[2]).error # ""

CommitFailed(c) == pc[c] = "failed" /\ error[c] = "COMMIT_ERROR"

\* C15: a CreateOrder call invokes orders.create_order at most once, not at all
\* when validation or the catalog read failed, and exactly once when every line
\* item passed and the call is past the invocation; a failed invocation ends
\* the call with that failure and is not followed by another; the ledger never
\* holds more orders than there are calls that invoked create_order.
C15_CommitAtMostOnce ==
    /\ [](/\ \A c \in Calls :
               /\ create_calls[c] <= 1
               /\ Aborted(c) => create_calls[c] = 0
               /\ (Validated(c) /\ failed_item[c] = 0) =>
                      create_calls[c] = (IF pc[c] = "create" THEN 0 ELSE 1)
               /\ CommitFailed(c) => (create_calls[c] = 1 /\ order_of[c] = 0)
          /\ Len(db) <= Cardinality({c \in Calls : create_calls[c] = 1}))
    /\ [][\A c \in Calls :
              pc[c] = "failed" =>
                  (pc'[c] = "failed" /\ create_calls'[c] = create_calls[c])]_vars

\* C15 witness: call 1 passed validation and its one create_order invocation
\* failed, call 2 invoked create_order once and returned; one order exists.
C15_Witness ==
    /\ CommitFailed(1)
    /\ failed_item[1] = 0
    /\ create_calls = <<1, 1>>
    /\ pc[2] = "done"
    /\ Len(db) = 1

\* C16: a CreateOrder call that ended with the transport failure of its
\* catalog read had read the catalog more than once (the failed read was
\* retried before the failure was surfaced).
C16_ReadRetried ==
    \A c \in Calls :
        (pc[c] = "failed" /\ error[c] = "TRANSPORT_ERROR") => list_calls[c] >= 2

\* C17: a run of handle_order_created makes one decrement_stock call per line
\* item of the order, with that item's product_id and quantity, in the sequence
\* in which the caller gave the items to CreateOrder, and the stock it leaves is
\* the effect of those calls in that sequence.
C17_DecrementPerItem ==
    [][\A i \in 1..Len(events) :
          handled'[i] = handled[i] + 1 =>
              \A c \in Calls :
                  order_of[c] = events[i].order.id =>
                      /\ Len(decrements') = Len(order_data[c])
                      /\ \A k \in 1..Len(order_data[c]) :
                             /\ decrements'[k].product_id = order_data[c][k].product_id
                             /\ decrements'[k].amount = order_data[c][k].quantity
                      /\ storage' = apply_calls(storage, decrements')]_vars

\* C17 witness: the event of an order of two line items, of different products
\* and quantities, was handled once: two calls, the first item's first.
C17_Witness ==
    /\ handled = <<1>>
    /\ Len(order_data[1]) = 2
    /\ order_data[1][1].product_id # order_data[1][2].product_id
    /\ order_data[1][1].quantity # order_data[1][2].quantity
    /\ decrements =
           <<[product_id |-> order_data[1][1].product_id,
              amount |-> order_data[1][1].quantity],
             [product_id |-> order_data[1][2].product_id,
              amount |-> order_data[1][2].quantity]>>
    /\ storage # init_stock

\* C18: the loop checks every line item against the stock of the snapshot as
\* it was read, also when earlier items name the same product: when each item
\* alone passes against the snapshot the order is accepted, whatever the
\* quantities of one product add up to, and an item is never the rejected one
\* when it passes against the snapshot.
C18_RepeatedItemsUndiminished ==
    \A c \in Calls : Validated(c) =>
        /\ (\A j \in 1..Len(order_data[c]) : ItemPasses(c, j)) =>
               (failed_item[c] = 0 /\ Accepted(c))
        /\ failed_item[c] # 0 => ~ItemPasses(c, failed_item[c])

\* C18 witness: two line items of one product, each within the snapshot stock,
\* together above it, and the order was committed and returned.
C18_Witness ==
    /\ pc[1] = "done"
    /\ Len(order_data[1]) = 2
    /\ order_data[1][1].product_id = order_data[1][2].product_id
    /\ ItemPasses(1, 1) /\ ItemPasses(1, 2)
    /\ order_data[1][1].quantity + order_data[1][2].quantity
           > SnapStock(1, order_data[1][1].product_id)
    /\ Len(get_order(db, response[1]).order_details) = 2

\* the line items of call c that fail a check against the call's snapshot
FailingItems(c) == {j \in 1..Len(order_data[c]) : ~ItemPasses(c, j)}

\* the error of line item j by the precedence of the three checks
ErrorOf(c, j) ==
    IF ~InSnapshot(c, order_data[c][j].product_id) THEN "PRODUCT_NOT_FOUND"
    ELSE IF SnapStock(c, order_data[c][j].product_id) = 0 THEN "PRODUCT_NOT_IN_STOCK"
    ELSE "BAD_REQUEST"

\* C19: when some line items fail validation, the call is rejected with the
\* error of the first of them in request order, chosen by the precedence
\* ProductNotFound, ProductNotInStock, quantity exceeds stock; what the later
\* items would have raised does not show.
C19_FirstFailingItem ==
    \A c \in Calls : (Validated(c) /\ FailingItems(c) # {}) =>
            LET first == CHOOSE j \in FailingItems(c) :
                             \A k \in FailingItems(c) : j <= k
            IN  /\ Rejected(c)
                /\ failed_item[c] = first
                /\ error[c] = ErrorOf(c, first)

\* C19 witness: item 1 asks for more than none of a product with stock 0,
\* item 2 names a product the catalog lacks; the call failed at item 1 with
\* PRODUCT_NOT_IN_STOCK.
C19_Witness ==
    /\ Len(order_data[1]) = 2
    /\ InSnapshot(1, order_data[1][1].product_id)
    /\ SnapStock(1, order_data[1][1].product_id) = 0
    /\ order_data[1][1].quantity > 0
    /\ ~InSnapshot(1, order_data[1][2].product_id)
    /\ pc[1] = "failed"
    /\ failed_item[1] = 1
    /\ error[1] = "PRODUCT_NOT_IN_STOCK"

\* a step of some CreateOrder call, in the gateway or in the orders service
CreateOrderStep == call_vars' # call_vars \/ db' # db \/ events' # events

\* a run of handle_order_created
HandlerStep ==
    /\ Len(handled') = Len(handled)
    /\ \E i \in 1..Len(handled) : handled'[i] = handled[i] + 1

\* C20: no step of a CreateOrder call, accepted or rejected, changes the stock
\* of any product, and a step that changes stock is a run of the order_created
\* handler, which is no step of a call.
C20_GatewayNeverWritesStock ==
    [][/\ CreateOrderStep => storage' = storage
       /\ storage' # storage => (HandlerStep /\ ~CreateOrderStep)]_vars

\* C20 witness: call 1 was accepted and returned, call 2 was rejected by
\* validation, no event has been handled, and the stock is as at the start.
C20_Witness ==
    /\ pc[1] = "done"
    /\ Rejected(2) /\ failed_item[2] = 1
    /\ handled = <<0>>
    /\ storage = init_stock
    /\ \E p \in DOMAIN storage : QtyOf(p, order_data[1]) > 0

\* C21: with a channel that delivers at least once, every order_created event
\* that was published is eventually handled at least once, that is, the
\* decrement of each line item of its order is eventually applied.
C21_EventuallyHandled ==
    \A i \in 1..Cardinality(Calls) :
        (Len(events) >= i) ~> (Len(handled) >= i /\ handled[i] >= 1)

\* C21 witness: both calls returned, both events were published and each was
\* handled, the stock has moved.
C21_Witness ==
    /\ pc[1] = "done" /\ pc[2] = "done"
    /\ Len(events) = 2
    /\ handled[1] >= 1 /\ handled[2] >= 1
    /\ decrements # <<>>
    /\ storage # init_stock

\* the quantity of p in the lines of the first n committed orders
RECURSIVE CommittedQty(_, _)
CommittedQty(p, n) ==
    IF n = 0 THEN 0
    ELSE QtyOf(p, db[n].order_details) + CommittedQty(p, n - 1)

NoDuplicateApplied == \A i \in 1..Len(handled) : handled[i] <= 1

\* C22: as long as no event was handled more than once and the catalog had no
\* administrative write, the stock of every product is at least
\* max(initial stock - quantity of the product in all committed orders, 0):
\* a catalog read between commit and decrement is too high, never too low.
C22_StaleOnlyHigh ==
    (NoDuplicateApplied /\ admin_writes = 0) =>
        \A p \in DOMAIN storage :
            storage[p] >= Max(init_stock[p] - CommittedQty(p, Len(db)), 0)

\* C22 witness: two orders are committed, the event of the first was handled
\* once and that of the second not yet; the stock of a product of the second
\* order is above what the committed orders leave of it.
C22_Witness ==
    /\ Len(db) = 2
    /\ handled = <<1, 0>>
    /\ admin_writes = 0
    /\ \E p \in DOMAIN storage :
           /\ QtyOf(p, db[2].order_details) > 0
           /\ storage[p] < init_stock[p]
           /\ storage[p] > Max(init_stock[p] - CommittedQty(p, Len(db)), 0)

\* what get_order gave is the order of this id with all its line items
WholeOrder(result, id) ==
    /\ "error" \notin DOMAIN result
    /\ result.id = id
    /\ Len(result.order_details) = Len(db[id].order_details)
    /\ \A i \in 1..Len(db[id].order_details) :
           /\ result.order_details[i].product_id = db[id].order_details[i].product_id
           /\ result.order_details[i].quantity = db[id].order_details[i].quantity
           /\ result.order_details[i].price = db[id].order_details[i].price

\* C23: get_order of an order in the ledger returns the order with all its
\* details, through the gateway and through gateapi, also after a product of
\* the order was deleted from the catalog.
C23_GetOrderSurvivesDelete ==
    \A id \in 1..Len(db) :
        /\ WholeOrder(gateway_get_order(db, id), id)
        /\ WholeOrder(gateapi_get_order(db, storage, id), id)

\* the line items of the order of events[i]
DetailsOf(i) == events[i].order.order_details

\* C24: the stock after the events of distinct orders were each handled once
\* does not depend on the sequence of the deliveries: from every reachable
\* stock, handling two events in either sequence gives every product the same
\* stock, and once both events of a run were handled once the stock of every
\* product is max(initial stock - the quantity both orders ask of it, 0).
C24_DeliveryOrderIrrelevant ==
    /\ \A i, j \in 1..Len(events) :
           decrement_each(decrement_each(storage, DetailsOf(i)), DetailsOf(j))
               = decrement_each(decrement_each(storage, DetailsOf(j)), DetailsOf(i))
    /\ handled = <<1, 1>> =>
           \A p \in DOMAIN storage :
               storage[p] = Max(init_stock[p] - QtyOf(p, DetailsOf(1))
                                              - QtyOf(p, DetailsOf(2)), 0)

\* C24 witness: two orders of one product in different quantities, together
\* above its stock; the event of the second order was handled before that of
\* the first, each once.
C24_Witness ==
    /\ handled = <<1, 1>>
    /\ decrements = decrement_calls(DetailsOf(1))
    /\ \E p \in DOMAIN storage :
           /\ QtyOf(p, DetailsOf(1)) = 1
           /\ QtyOf(p, DetailsOf(2)) = 2
           /\ init_stock[p] = 2
           /\ storage[p] = 0

\* every committed order was published and its event handled exactly once
AllApplied ==
    /\ Len(events) = Len(db)
    /\ \A i \in 1..Len(events) : handled[i] = 1

\* no request has two line items of one product
NoRepeatedProduct ==
    \A c \in Calls : \A i, j \in 1..Len(order_data[c]) :
        i # j => order_data[c][i].product_id # order_data[c][j].product_id

\* no oversell: what the committed orders ask of a product is within its
\* initial stock, the stock is the initial stock less what was handled, and
\* once every order's event was handled it is the initial stock less what the
\* orders ask
NoOversell ==
    \A p \in DOMAIN storage :
        /\ CommittedQty(p, Len(db)) <= init_stock[p]
        /\ storage[p] = init_stock[p] - HandledQty(p, Len(events))
        /\ AllApplied => storage[p] = init_stock[p] - CommittedQty(p, Len(db))

\* C25 as stated: in a run that handles the orders one after another, without
\* administrative writes and with every committed order published, there is
\* no oversell.
C25_SerialNoOversell ==
    (admin_writes = 0 /\ \A c \in Calls : ~PublishFailed(c)) => NoOversell

\* C25 amended: the same when no request has two line items of one product.
C25_SerialNoOversellDistinctProducts ==
    (/\ admin_writes = 0
     /\ \A c \in Calls : ~PublishFailed(c)
     /\ NoRepeatedProduct) => NoOversell

\* C25 witness: the first order, of two products, was handled before the
\* second call read the catalog; the second order took the rest of the stock
\* and was handled too.
C25_Witness ==
    /\ NoRepeatedProduct
    /\ Len(order_data[1]) = 2
    /\ pc[1] = "done" /\ pc[2] = "done"
    /\ AllApplied
    /\ all_products[2] # all_products[1]
    /\ \E p \in DOMAIN storage :
           /\ QtyOf(p, order_data[1]) > 0
           /\ QtyOf(p, order_data[2]) > 0
           /\ storage[p] = 0
           /\ init_stock[p] = CommittedQty(p, Len(db))

\* the kind of failure of the gateway's exception and of gateapi's
KindOfGateway(e) ==
    IF e = "PRODUCT_NOT_FOUND" THEN "not found"
    ELSE IF e = "PRODUCT_NOT_IN_STOCK" THEN "not in stock"
    ELSE IF e = "BAD_REQUEST" THEN "quantity exceeds stock"
    ELSE "none"

KindOfGateapi(e) ==
    IF e = HTTPException(404, "Product with id not found") THEN "not found"
    ELSE IF e = HTTPException(400, "Product is not in stock") THEN "not in stock"
    ELSE IF e = HTTPException(400, "Order quantity exceeds quantity limit.")
    THEN "quantity exceeds stock"
    ELSE "none"

\* C26: on the product list a gateway call read and its request, gateapi's
\* _create_order decides as the gateway's did: it raises at the same line item
\* with the same kind of failure, or raises nothing when the gateway raised
\* nothing, and then makes one orders.create_order call with the details the
\* gateway's one call passed, which are those of the committed order.
C26_GatewayGateapiAgree ==
    \A c \in Calls : Validated(c) =>
        LET api == gateapi_create_order(all_products[c], order_data[c]) IN
            /\ api.item = failed_item[c]
            /\ failed_item[c] # 0 =>
                   /\ KindOfGateapi(api.error) = KindOfGateway(error[c])
                   /\ KindOfGateapi(api.error) # "none"
                   /\ api.create_order_args = <<>>
                   /\ create_calls[c] = 0
            /\ failed_item[c] = 0 =>
                   /\ api.error = NoException
                   /\ api.create_order_args = <<CreateOrderSchema_dump(order_data[c])>>
                   /\ pc[c] # "create" => create_calls[c] = Len(api.create_order_args)
                   /\ order_of[c] # 0 =>
                          db[order_of[c]].order_details =
                              db_commit(<<>>, Order(api.create_order_args[1]))[1].order_details

\* C26 witness: both raise at the second line item, of a product out of
\* stock and asked for in a quantity above zero, as not in stock.
C26_Witness ==
    /\ pc[1] = "failed"
    /\ failed_item[1] = 2
    /\ error[1] = "PRODUCT_NOT_IN_STOCK"
    /\ order_data[1][2].quantity > 0
    /\ gateapi_create_order(all_products[1], order_data[1]).item = 2
    /\ gateapi_create_order(all_products[1], order_data[1]).error
           = HTTPException(400, "Product is not in stock")

====
